---- MODULE Spec2Model ----
(***************************************************************************)
(* Model of the EnerHub2X run scripts:                                     *)
(*   - main() of EnerHub2X/model_run.py (single-run pipeline and the       *)
(*     dispatch to the strategic run),                                     *)
(*   - run_cournot() and its helpers of                                    *)
(*     EnerHub2X/src/strategic/strategic_loop.py,                          *)
(*   - the storage rows add_constraints() of                               *)
(*     EnerHub2X/src/model/constraints.py puts into the built model.       *)
(* The external solver is a black box: each solve returns one of the       *)
(* termination statuses and, when a solution exists, loads variable        *)
(* values into the model.                                                  *)
(***************************************************************************)
EXTENDS Integers, Sequences, FiniteSets, TLC

(***************************************************************************)
(* Bounds of the model                                                     *)
(***************************************************************************)
\* max_iter argument of run_cournot (iteration cap of the best-response loop)
MaxIter == 2
\* number of time steps of model.T
NT == 2
\* largest sale quantity (in whole units) the solver returns for a free Sale variable
MaxSale == 1
\* largest volume, intake or generation (in whole units) of a storage solution
MaxQty == 2

(***************************************************************************)
(* Program constants                                                       *)
(***************************************************************************)
\* damping = DampNum / DampDen (run_cournot(..., damping=0.5))
DampNum == 1
DampDen == 2
\* tol = TolNum / TolDen (run_cournot(..., tol=1e-3))
TolNum == 1
TolDen == 1000

(***************************************************************************)
(* Domains                                                                 *)
(***************************************************************************)
\* pyomo.opt.TerminationCondition values the pipeline distinguishes
Status == {"optimal", "infeasible", "unbounded", "infeasibleOrUnbounded", "other"}

\* binary variables of the model (Online / Charge entries)
Bins == {"Online", "Charge"}
\* value None of a Pyomo variable
NoValue == -1

\* technologies that can be strategic suppliers, areas, the commodity and time steps
Techs == {"g1", "g2"}
Areas == {"a1", "a2"}
NoArea == "None"
co2_label == "CO2"
T == 1..NT

VARIABLES
    pc,             \* position in main() / run_cournot()
    strategic,      \* cfg.strategic
    steps,          \* main: the pipeline stages executed so far, in order
    ret,            \* what main() ended with ("none" while running)
    term,           \* main: term
    mip_term,       \* main: mip_result.solver.termination_condition
    mip_solves,     \* main: number of solver.solve(model) calls of the persistent MIP solver
    DualReductions, \* main: solver.options['DualReductions'] was set to 0
    loaded,         \* the variables of `model` carry values (a solution was loaded)
    binValue,       \* value of each binary variable of `model` (NoValue = None)
    binFixed,       \* v.fixed of each binary variable of `model`
    relaxed,        \* core.relax_integer_vars was applied to `model`
    lp_term,        \* main: lp_term of the relaxed copy in the unbounded branch
    suppliers,      \* run_cournot: strategic_suppliers in iteration order (<<>> = None or empty)
    tech_to_area,   \* run_cournot: tech_to_area (NoArea = no entry)
    saleE,          \* model.saleE: the tradable (area, carrier) sell pairs
    curr,           \* run_cournot: curr[tech][t], in units of 1/Scale
    mFixed,         \* Sale[idx].fixed of the model built last
    mSale,          \* Sale[idx].value of the model built last, in units of 1/Scale
    c_status,       \* termination status of the last solve of run_cournot
    n_solves,       \* run_cournot: number of solver invocations so far
    iteration,      \* run_cournot: iteration
    k,              \* run_cournot: position of `tech` in strategic_suppliers
    max_change,     \* run_cournot: max_change, in units of 1/Scale
    log,            \* run_cournot: which of the [INFO] Converged / [WARN] lines was printed
    entry,          \* the function the run was started with: "main" or "run_cournot"
    tol,            \* run_cournot: tol, in units of 1/TolDen
    horizon,        \* built model: number of time steps of model.T (T.last())
    soc_init,       \* built model: soc_init[g] of the storage technology g
    soc_max,        \* built model: soc_max[g] (StorageCap)
    sum_in_raw,     \* data: sum of sigma_in[g, e] over the carriers e
    sigma_out,      \* data: sigma_out[g, e] for each carrier e
    step,           \* the last time step of model.T that carries solution values
    Volume,         \* solution: Volume[g, step]
    Fuelusetotal,   \* solution: Fuelusetotal[g, step]
    Generation,     \* solution: Generation[g, e, step] for (g, e) in f_out
    Charge,         \* solution: Charge[g, step]
    orig_cap,       \* data: tech_df Capacity of the technology g before scaling
    orig_min,       \* data: tech_df Minimum of g (load fraction), in units of 1/MinDen
    cstart,         \* built model: cstart[g]
    Online,         \* solution: Online[g, step]
    Startcost,      \* solution: Startcost[g, step]
    variant,        \* the package tree whose model/constraints.py builds the model
    buy_pairs,      \* model.buyE: the tradable (area, carrier) buy pairs
    sale_pairs,     \* model.saleE of the model being built
    location,       \* model.location: (area, technology) pairs
    sigma_in,       \* data: sigma_in[g, e] for each carrier e
    G_s,            \* model.G_s: the storage technologies
    demand,         \* model.demand, indexed by the keys of data['Demand']
    DemandTarget,   \* model.DemandTarget, indexed by (step, area.fuel)
    rows,           \* the generated rows of each constraint family
    profit,         \* the slack variables summed in Profit with coefficient -penalty
    raised,         \* the exception build_model ended with ("none" otherwise)
    n_hours,        \* build_full_year_week_map: len(full_hours)
    wk_w,           \* build_full_year_week_map: w
    wk_idx,         \* build_full_year_week_map: idx
    wk_left,        \* build_full_year_week_map: iterations left of range(length)
    wk_sizes,       \* week_map: number of hours mapped to each label Target1..Target52
    wk_last,        \* week_map: the entry written last, <<position in full_hours, week>>
    in_frac,        \* define_params: in_frac[g, e], a float <<m, x>> of value m / 2^x
    out_frac        \* define_params: out_frac[g, e]

solveVars == <<term, mip_term, mip_solves, DualReductions, loaded,
               binValue, binFixed, relaxed, lp_term>>

cournotVars == <<suppliers, tech_to_area, saleE, curr, mFixed, mSale, c_status,
                 n_solves, iteration, k, max_change, log>>

callVars == <<entry, tol>>

storageVars == <<horizon, soc_init, soc_max, sum_in_raw, sigma_out, step,
                 Volume, Fuelusetotal, Generation, Charge>>

\* the data, parameters and solution values of the built model
ucVars == <<orig_cap, orig_min, cstart, Online, Startcost>>

buildVars == <<variant, buy_pairs, sale_pairs, location, sigma_in, G_s, demand,
               DemandTarget, rows, profit, raised>>

weekVars == <<n_hours, wk_w, wk_idx, wk_left, wk_sizes, wk_last>>

mixVars == <<in_frac, out_frac>>

modelVars == <<storageVars, ucVars, buildVars, weekVars, mixVars>>

vars == <<pc, strategic, steps, ret, solveVars, cournotVars, callVars, modelVars>>

\* quantities are kept as integers in units of 1/Scale, so that MaxIter
\* damped updates of a whole quantity are exact
Scale == DampDen ^ MaxIter

\* the quantities the solver may return for a free Sale variable: a vertex
\* solution sells nothing or the largest sale
FreeVals == {0, MaxSale * Scale}

\* the tol arguments run_cournot is called with directly: the value main()
\* passes, and 0 (no change is below it)
TolChoices == {0, TolNum}

\* inverse demand p = a - b*q of the CO2 market and the suppliers' marginal
\* cost c, in whole units
DemandA == 4
DemandB == 1
MarginalCost == 1
\* the symmetric Cournot quantity (a - c) / (3 b) of two suppliers
CournotQ == ((DemandA - MarginalCost) * Scale) \div (3 * DemandB)

\* the minimum-load fractions of the data are multiples of 1/MinDen
MinDen == 2

\* significand width of the floats, and the largest raw mix value
MantissaBits == 4
MaxMix == 3

\* the lists given to build_full_year_week_map differ from a full year by
\* at most MaxOff hours
MaxOff == 1

\* energy carriers of model.F the storage technology can deliver
Carriers == {"e1", "e2"}
\* the sigma_out[g, e] and summed sigma_in values of the data
SigmaOutVals == {0, 1}
SigmaInVals == {0, 1, 2}

\* the StrategicSuppliers sets the data may define
SupplierChoices == {<<>>, <<"g1">>, <<"g1", "g2">>}

\* index set of model.Sale = Var(model.saleE, model.T)
SaleIdx(sE) == {<<p[1], p[2], t>> : p \in sE, t \in T}

Range(seq) == {seq[n] : n \in 1..Len(seq)}
Abs(x) == IF x < 0 THEN -x ELSE x
Max(x, y) == IF x < y THEN y ELSE x
MaxOf(S) == CHOOSE x \in S : \A y \in S : y <= x

\* a solve loads a solution when the status is optimal; with any other status
\* the model keeps what it had, except that an interrupted solve ("other",
\* e.g. a limit was hit) may still load its incumbent
LoadedAfter(st, before) ==
    IF st = "optimal" THEN {TRUE}
    ELSE IF st = "other" THEN {before, TRUE}
    ELSE {before}

\* the values the binaries may carry after a solve that loaded a solution:
\* fixed variables keep their value
BinValuesAfter(fixed, old) ==
    {f \in [Bins -> {0, 1}] : \A b \in Bins : fixed[b] => f[b] = old[b]}

\* the storage part of the built model is not looked into
NoStorageModel ==
    /\ horizon = 0
    /\ soc_init = 0
    /\ soc_max = 0
    /\ sum_in_raw = 0
    /\ sigma_out = [e \in Carriers |-> 0]
    /\ step = 0
    /\ Volume = 0
    /\ Fuelusetotal = 0
    /\ Generation = <<>>
    /\ Charge = 0

\* the unit-commitment part of the built model is not looked into
NoUCModel ==
    /\ orig_cap = 0
    /\ orig_min = 0
    /\ cstart = 0
    /\ Online = 0
    /\ Startcost = 0

\* the constraint families of the model
Families == {"Fuelmix", "Production", "Balance", "DemandTime", "Availability",
             "TargetDemand"}

\* the slack variables of the model
SlackNames == {"SlackDemandImport", "SlackDemandExport", "SlackTarget"}

\* the assembly of the constraint families is not looked into
NoBuild ==
    /\ variant = "none"
    /\ buy_pairs = {}
    /\ sale_pairs = {}
    /\ location = {}
    /\ sigma_in = [e \in Carriers |-> 0]
    /\ G_s = {}
    /\ demand = <<>>
    /\ DemandTarget = <<>>
    /\ rows = [fam \in Families |-> {}]
    /\ profit = [v \in SlackNames |-> {}]
    /\ raised = "none"

\* build_full_year_week_map (n_weeks=52)
n_weeks == 52

\* build_full_year_week_map is not called
NoWeeks ==
    /\ n_hours = 0
    /\ wk_w = 0
    /\ wk_idx = 0
    /\ wk_left = 0
    /\ wk_sizes = [b \in 1..n_weeks |-> 0]
    /\ wk_last = <<0, 0>>

\* the mix fractions of define_params are not looked into
NoMix ==
    /\ in_frac = <<>>
    /\ out_frac = <<>>

\* no stage of main() or run_cournot() has run
NothingRun ==
    /\ steps = <<>>
    /\ ret = "none"
    /\ term = "none"
    /\ mip_term = "none"
    /\ mip_solves = 0
    /\ DualReductions = FALSE
    /\ loaded = FALSE
    /\ binValue = [b \in Bins |-> NoValue]
    /\ binFixed = [b \in Bins |-> FALSE]
    /\ relaxed = FALSE
    /\ lp_term = "none"
    /\ suppliers = <<>>
    /\ tech_to_area = [g \in Techs |-> NoArea]
    /\ saleE = {}
    /\ curr = <<>>
    /\ mFixed = <<>>
    /\ mSale = <<>>
    /\ c_status = "none"
    /\ n_solves = 0
    /\ iteration = 0
    /\ k = 0
    /\ max_change = 0
    /\ log = "none"

Init ==
    /\ entry \in {"main", "run_cournot"}
    /\ pc = (IF entry = "main" THEN "start" ELSE "cournot")
    /\ tol \in (IF entry = "main" THEN {TolNum} ELSE TolChoices)
    /\ strategic \in (IF entry = "main" THEN BOOLEAN ELSE {TRUE})
    /\ NoStorageModel
    /\ NoUCModel
    /\ NoBuild
    /\ NoWeeks
    /\ NoMix
    /\ NothingRun

(***************************************************************************)
(* main() of EnerHub2X/model_run.py                                        *)
(***************************************************************************)

\* lines 58-66: the strategic run is chosen by cfg.strategic
Dispatch ==
    /\ pc = "start"
    /\ pc' = IF strategic THEN "cournot" ELSE "build"
    /\ UNCHANGED cournotVars
    /\ UNCHANGED callVars
    /\ UNCHANGED modelVars
    /\ UNCHANGED <<strategic, steps, ret, solveVars>>

\* lines 72-86: build the model and solve the MIP once
SolveMIP ==
    /\ pc = "build"
    /\ \E st \in Status :
         /\ term' = st
         /\ mip_term' = st
         /\ \E l \in LoadedAfter(st, loaded) :
              /\ loaded' = l
              /\ IF l THEN binValue' \in BinValuesAfter(binFixed, binValue)
                      ELSE binValue' = binValue
    /\ mip_solves' = mip_solves + 1
    /\ steps' = Append(steps, "mip_solve")
    /\ pc' = "retry"
    /\ UNCHANGED cournotVars
    /\ UNCHANGED callVars
    /\ UNCHANGED modelVars
    /\ UNCHANGED <<strategic, ret, DualReductions, binFixed, relaxed, lp_term>>

\* line 89: the status that triggers the disambiguation retry
NeedsRetry_any(t) == t \in {"infeasibleOrUnbounded", "infeasible"}
NeedsRetry(t) == t = "infeasibleOrUnbounded"

\* lines 88-95: the ambiguous status is retried once with DualReductions=0
RetryAmbiguous ==
    /\ pc = "retry"
    /\ NeedsRetry(term)
    /\ DualReductions' = TRUE
    /\ \E st \in Status :
         /\ term' = st
         /\ \E l \in LoadedAfter(st, loaded) :
              /\ loaded' = l
              /\ IF l THEN binValue' \in BinValuesAfter(binFixed, binValue)
                      ELSE binValue' = binValue
    /\ mip_solves' = mip_solves + 1
    /\ steps' = Append(steps, "retry_solve")
    /\ pc' = "branch"
    /\ UNCHANGED cournotVars
    /\ UNCHANGED callVars
    /\ UNCHANGED modelVars
    /\ UNCHANGED <<strategic, ret, mip_term, binFixed, relaxed, lp_term>>

\* line 89, condition false: no retry
NoRetry ==
    /\ pc = "retry"
    /\ ~NeedsRetry(term)
    /\ pc' = "branch"
    /\ UNCHANGED cournotVars
    /\ UNCHANGED callVars
    /\ UNCHANGED modelVars
    /\ UNCHANGED <<strategic, steps, ret, solveVars>>

\* lines 98, 104, 145, 147: the branch taken for a termination status
Branch_ambiguousAsInfeasible(t) ==
    IF t \in {"infeasible", "infeasibleOrUnbounded"} THEN "iis"
    ELSE IF t = "unbounded" THEN "ray"
    ELSE IF t = "optimal" THEN "ok"
    ELSE "unexpected"
Branch(t) ==
    IF t = "infeasible" THEN "iis"
    ELSE IF t = "unbounded" THEN "ray"
    ELSE IF t = "optimal" THEN "ok"
    ELSE "unexpected"

\* lines 98-103: compute and write the IIS; the branch has no return, so
\* control continues at line 150
BranchInfeasible ==
    /\ pc = "branch"
    /\ Branch(term) = "iis"
    /\ steps' = Append(steps, "iis")
    /\ pc' = "post"
    /\ UNCHANGED cournotVars
    /\ UNCHANGED callVars
    /\ UNCHANGED modelVars
    /\ UNCHANGED <<strategic, ret, solveVars>>

\* lines 104-123: rebuild a fresh copy, relax its integers, solve it as an LP
BranchUnbounded ==
    /\ pc = "branch"
    /\ Branch(term) = "ray"
    /\ lp_term' \in Status
    /\ steps' = steps \o <<"ray_build", "ray_relax", "ray_solve">>
    /\ pc' = "ray"
    /\ UNCHANGED cournotVars
    /\ UNCHANGED callVars
    /\ UNCHANGED modelVars
    /\ UNCHANGED <<strategic, ret, term, mip_term, mip_solves, DualReductions,
                   loaded, binValue, binFixed, relaxed>>

\* lines 125-144: print the ray when the relaxation is unbounded, then return
ReportRay_noReturn ==
    /\ pc = "ray"
    /\ steps' = IF lp_term = "unbounded" THEN Append(steps, "ray_report") ELSE steps
    /\ pc' = "post"
    /\ UNCHANGED cournotVars
    /\ UNCHANGED callVars
    /\ UNCHANGED modelVars
    /\ UNCHANGED <<strategic, ret, solveVars>>
ReportRay ==
    /\ pc = "ray"
    /\ steps' = IF lp_term = "unbounded" THEN Append(steps, "ray_report") ELSE steps
    /\ ret' = "None"
    /\ pc' = "done"
    /\ UNCHANGED cournotVars
    /\ UNCHANGED callVars
    /\ UNCHANGED modelVars
    /\ UNCHANGED <<strategic, solveVars>>

\* lines 145-146
BranchOptimal ==
    /\ pc = "branch"
    /\ Branch(term) = "ok"
    /\ pc' = "post"
    /\ UNCHANGED cournotVars
    /\ UNCHANGED callVars
    /\ UNCHANGED modelVars
    /\ UNCHANGED <<strategic, steps, ret, solveVars>>

\* lines 147-148: any other status returns a message string
BranchOther ==
    /\ pc = "branch"
    /\ Branch(term) = "unexpected"
    /\ ret' = "message"
    /\ pc' = "done"
    /\ UNCHANGED cournotVars
    /\ UNCHANGED callVars
    /\ UNCHANGED modelVars
    /\ UNCHANGED <<strategic, steps, solveVars>>

\* lines 151-152: value(model.Obj) with a loaded solution
ReadMipObjective ==
    /\ pc = "post"
    /\ loaded
    /\ steps' = Append(steps, "read_mip_obj")
    /\ pc' = "check"
    /\ UNCHANGED cournotVars
    /\ UNCHANGED callVars
    /\ UNCHANGED modelVars
    /\ UNCHANGED <<strategic, ret, solveVars>>

\* lines 151-152: value(model.Obj) when no solution was loaded reads
\* variables that were never given a value: the read either raises or
\* yields whatever the variables hold
ReadMipObjectiveUnloaded ==
    /\ pc = "post"
    /\ ~loaded
    /\ steps' = Append(steps, "read_mip_obj")
    /\ \E raises \in BOOLEAN :
         IF raises THEN pc' = "done" /\ ret' = "raised"
                   ELSE pc' = "check" /\ ret' = ret
    /\ UNCHANGED cournotVars
    /\ UNCHANGED callVars
    /\ UNCHANGED modelVars
    /\ UNCHANGED <<strategic, solveVars>>

\* lines 154-155: detect_max_constraint_violation (swallows evaluation errors)
CheckViolations ==
    /\ pc = "check"
    /\ steps' = Append(steps, "violation_check")
    /\ pc' = "fix"
    /\ UNCHANGED cournotVars
    /\ UNCHANGED callVars
    /\ UNCHANGED modelVars
    /\ UNCHANGED <<strategic, ret, solveVars>>

\* lines 158-160: fix every binary that carries a value at that value
FixBinaries ==
    /\ pc = "fix"
    /\ binFixed' = [b \in Bins |-> binFixed[b] \/ (~relaxed /\ binValue[b] # NoValue)]
    /\ steps' = Append(steps, "fix_binaries")
    /\ pc' = "relax"
    /\ UNCHANGED cournotVars
    /\ UNCHANGED callVars
    /\ UNCHANGED modelVars
    /\ UNCHANGED <<strategic, ret, term, mip_term, mip_solves, DualReductions,
                   loaded, binValue, relaxed, lp_term>>

\* lines 162-163: core.relax_integer_vars on the model
RelaxIntegers ==
    /\ pc = "relax"
    /\ relaxed' = TRUE
    /\ steps' = Append(steps, "relax")
    /\ pc' = "lp"
    /\ UNCHANGED cournotVars
    /\ UNCHANGED callVars
    /\ UNCHANGED modelVars
    /\ UNCHANGED <<strategic, ret, term, mip_term, mip_solves, DualReductions,
                   loaded, binValue, binFixed, lp_term>>

\* lines 165-168: re-solve the model as an LP with a second solver object;
\* its status is not inspected
LPResolve ==
    /\ pc = "lp"
    /\ \E st \in Status : \E l \in LoadedAfter(st, loaded) :
         /\ loaded' = l
         /\ IF l THEN binValue' \in BinValuesAfter(binFixed, binValue)
                 ELSE binValue' = binValue
    /\ steps' = Append(steps, "lp_solve")
    /\ pc' = "lp_obj"
    /\ UNCHANGED cournotVars
    /\ UNCHANGED callVars
    /\ UNCHANGED modelVars
    /\ UNCHANGED <<strategic, ret, term, mip_term, mip_solves, DualReductions,
                   binFixed, relaxed, lp_term>>

\* lines 169-171: value(model.Obj) after the LP; as at line 151 the read of
\* an unloaded model either raises or goes on
ReadLpObjective ==
    /\ pc = "lp_obj"
    /\ \E raises \in (IF loaded THEN {FALSE} ELSE BOOLEAN) :
         IF raises THEN pc' = "done" /\ ret' = "raised"
                   ELSE pc' = "export" /\ ret' = ret
    /\ steps' = Append(steps, "read_lp_obj")
    /\ UNCHANGED cournotVars
    /\ UNCHANGED callVars
    /\ UNCHANGED modelVars
    /\ UNCHANGED <<strategic, solveVars>>

\* lines 220-233: export results and inputs, return the model
Export ==
    /\ pc = "export"
    /\ steps' = steps \o <<"export_results", "export_inputs">>
    /\ ret' = "model"
    /\ pc' = "done"
    /\ UNCHANGED cournotVars
    /\ UNCHANGED callVars
    /\ UNCHANGED modelVars
    /\ UNCHANGED <<strategic, solveVars>>

(***************************************************************************)
(* run_cournot() of EnerHub2X/src/strategic/strategic_loop.py              *)
(***************************************************************************)

\* the membership test `idx in model.saleE` of lines 103, 117, 128 and 146:
\* idx is the triple (area, co2_label, t), model.saleE holds pairs
InSaleE_pair(idx) == <<idx[1], idx[2]>> \in saleE
InSaleE(idx) == idx \in saleE

\* line 132: damping * new_val + (1 - damping) * old_val
Damped(new_val, old_val) ==
    (DampNum * new_val + (DampDen - DampNum) * old_val) \div DampDen

\* the values a solve that loaded a solution leaves in model.Sale:
\* fixed variables keep their value
SaleAfter(fixed, value) ==
    {[i \in DOMAIN fixed |-> IF fixed[i] THEN value[i] ELSE f[i]] :
        f \in [DOMAIN fixed -> FreeVals]}

\* value(model.Sale[idx]) of lines 103 and 130 raises on a variable without value
ReadsNoValue(tech) ==
    \E t \in T : LET idx == <<tech_to_area[tech], co2_label, t>>
                 IN InSaleE(idx) /\ mSale[idx] = NoValue

\* lines 95-104
initialize_strategies ==
    [tech \in Range(suppliers) |->
        [t \in T |-> LET idx == <<tech_to_area[tech], co2_label, t>>
                     IN IF InSaleE(idx) THEN mSale[idx] ELSE 0]]

\* lines 112-119 (and 141-147): fix the sale variables of one supplier's area
\* at that supplier's strategy; m = [fixed |-> .., value |-> ..]
FixSalesOf(m, other) ==
    LET area == tech_to_area[other]
        hit(i) == i[1] = area /\ i[2] = co2_label /\ InSaleE(i)
    IN IF area = NoArea THEN m
       ELSE [fixed |-> [i \in DOMAIN m.fixed |-> hit(i) \/ m.fixed[i]],
             value |-> [i \in DOMAIN m.value |->
                           IF hit(i) THEN curr[other][i[3]] ELSE m.value[i]]]

\* lines 107-119: the suppliers from position n on, skipping current_tech
RECURSIVE fix_competitor_sales(_, _, _)
fix_competitor_sales(m, n, current_tech) ==
    IF n > Len(suppliers) THEN m
    ELSE IF suppliers[n] = current_tech
         THEN fix_competitor_sales(m, n + 1, current_tech)
         ELSE fix_competitor_sales(FixSalesOf(m, suppliers[n]), n + 1, current_tech)

\* lines 138-147: every supplier from position n on
RECURSIVE fix_all_sales(_, _)
fix_all_sales(m, n) ==
    IF n > Len(suppliers) THEN m
    ELSE fix_all_sales(FixSalesOf(m, suppliers[n]), n + 1)

\* a freshly built model: no Sale variable is fixed or has a value
FreshModel == [fixed |-> [i \in SaleIdx(saleE) |-> FALSE],
               value |-> [i \in SaleIdx(saleE) |-> NoValue]]

\* lines 126-133: the strategy of tech after the damped update
update_strategy(tech) ==
    [t \in T |-> LET idx == <<tech_to_area[tech], co2_label, t>>
                 IN IF InSaleE(idx) THEN Damped(mSale[idx], curr[tech][t])
                                    ELSE curr[tech][t]]

\* lines 125, 134-135: the change returned by _update_strategy
ChangeOf(tech) ==
    MaxOf({0} \cup {Abs(update_strategy(tech)[t] - curr[tech][t]) : t \in T})

BelowTol_le(change) == change * TolDen <= tol * Scale

\* line 67: max_change < tol
BelowTol(change) == change * TolDen < tol * Scale

\* lines 16-21: build the centralized model from the data and solve it
C_BaseSolve ==
    /\ pc = "cournot"
    /\ suppliers' \in SupplierChoices
    /\ tech_to_area' \in [Techs -> Areas \cup {NoArea}]
    /\ \E sE \in SUBSET (Areas \X {co2_label}) :
         /\ saleE' = sE
         /\ mFixed' = [i \in SaleIdx(sE) |-> FALSE]
         /\ \E st \in Status : \E l \in LoadedAfter(st, FALSE) :
              /\ c_status' = st
              /\ IF l THEN mSale' \in [SaleIdx(sE) -> FreeVals]
                      ELSE mSale' = [i \in SaleIdx(sE) |-> NoValue]
    /\ n_solves' = n_solves + 1
    /\ pc' = "c_check"
    /\ UNCHANGED callVars
    /\ UNCHANGED modelVars
    /\ UNCHANGED <<strategic, steps, ret, solveVars, curr, iteration, k, max_change, log>>

\* lines 23-29: a missing or empty StrategicSuppliers raises RuntimeError,
\* which main() does not catch
C_CheckSuppliers ==
    /\ pc = "c_check"
    /\ IF suppliers = <<>>
       THEN pc' = "done" /\ ret' = "RuntimeError"
       ELSE pc' = "c_init" /\ ret' = ret
    /\ UNCHANGED callVars
    /\ UNCHANGED modelVars
    /\ UNCHANGED <<strategic, steps, solveVars, cournotVars>>

\* lines 31-33: read the starting strategies off the centralized solution
C_Initialize ==
    /\ pc = "c_init"
    /\ IF \E tech \in Range(suppliers) : ReadsNoValue(tech)
       THEN pc' = "done" /\ ret' = "raised" /\ curr' = curr
       ELSE pc' = "c_iter" /\ ret' = ret /\ curr' = initialize_strategies
    /\ UNCHANGED callVars
    /\ UNCHANGED modelVars
    /\ UNCHANGED <<strategic, steps, solveVars, suppliers, tech_to_area, saleE,
                   mFixed, mSale, c_status, n_solves, iteration, k, max_change, log>>

\* lines 38-40: start the next iteration
C_IterStart ==
    /\ pc = "c_iter"
    /\ iteration < MaxIter
    /\ iteration' = iteration + 1
    /\ max_change' = 0
    /\ k' = 1
    /\ pc' = "c_build"
    /\ UNCHANGED callVars
    /\ UNCHANGED modelVars
    /\ UNCHANGED <<strategic, steps, ret, solveVars, suppliers, tech_to_area, saleE,
                   curr, mFixed, mSale, c_status, n_solves, log>>

\* lines 42-48: rebuild the model for supplier k and fix the competitors' sales
C_BuildAndFix ==
    /\ pc = "c_build"
    /\ LET m == fix_competitor_sales(FreshModel, 1, suppliers[k])
       IN mFixed' = m.fixed /\ mSale' = m.value
    /\ pc' = "c_solve"
    /\ UNCHANGED callVars
    /\ UNCHANGED modelVars
    /\ UNCHANGED <<strategic, steps, ret, solveVars, suppliers, tech_to_area, saleE,
                   curr, c_status, n_solves, iteration, k, max_change, log>>

\* line 58: the best-response solve; its status is not inspected
C_SubSolve ==
    /\ pc = "c_solve"
    /\ \E st \in Status : \E l \in LoadedAfter(st, FALSE) :
         /\ c_status' = st
         /\ IF l THEN mSale' \in SaleAfter(mFixed, mSale) ELSE mSale' = mSale
    /\ n_solves' = n_solves + 1
    /\ pc' = "c_update"
    /\ UNCHANGED callVars
    /\ UNCHANGED modelVars
    /\ UNCHANGED <<strategic, steps, ret, solveVars, suppliers, tech_to_area, saleE,
                   curr, mFixed, iteration, k, max_change, log>>

C_Update_allSuppliers ==
    /\ pc = "c_update"
    /\ LET tech == suppliers[k]
           solved(g, t) == LET idx == <<tech_to_area[g], co2_label, t>>
                           IN IF idx \in DOMAIN mSale /\ mSale[idx] # NoValue
                              THEN mSale[idx] ELSE curr[g][t]
       IN IF ReadsNoValue(tech)
          THEN /\ pc' = "done" /\ ret' = "raised"
               /\ UNCHANGED <<curr, max_change, k>>
          ELSE /\ curr' = [g \in DOMAIN curr |->
                             [t \in T |-> Damped(solved(g, t), curr[g][t])]]
               /\ max_change' = Max(max_change, ChangeOf(tech))
               /\ k' = k + 1
               /\ pc' = IF k < Len(suppliers) THEN "c_build" ELSE "c_conv"
               /\ ret' = ret
    /\ UNCHANGED callVars
    /\ UNCHANGED modelVars
    /\ UNCHANGED <<strategic, steps, solveVars, suppliers, tech_to_area, saleE,
                   mFixed, mSale, c_status, n_solves, iteration, log>>

\* lines 60-62: damped update of the acting supplier's strategy
C_Update ==
    /\ pc = "c_update"
    /\ LET tech == suppliers[k]
       IN IF ReadsNoValue(tech)
          THEN /\ pc' = "done" /\ ret' = "raised"
               /\ UNCHANGED <<curr, max_change, k>>
          ELSE /\ curr' = [curr EXCEPT ![tech] = update_strategy(tech)]
               /\ max_change' = Max(max_change, ChangeOf(tech))
               /\ k' = k + 1
               /\ pc' = IF k < Len(suppliers) THEN "c_build" ELSE "c_conv"
               /\ ret' = ret
    /\ UNCHANGED callVars
    /\ UNCHANGED modelVars
    /\ UNCHANGED <<strategic, steps, solveVars, suppliers, tech_to_area, saleE,
                   mFixed, mSale, c_status, n_solves, iteration, log>>

C_ConvTest_capRaises ==
    /\ pc = "c_conv"
    /\ IF BelowTol(max_change)
       THEN pc' = "c_final" /\ log' = "converged" /\ ret' = ret
       ELSE IF iteration < MaxIter
            THEN pc' = "c_iter" /\ log' = log /\ ret' = ret
            ELSE pc' = "done" /\ log' = "max_iter" /\ ret' = "raised"
    /\ UNCHANGED callVars
    /\ UNCHANGED modelVars
    /\ UNCHANGED <<strategic, steps, solveVars, suppliers, tech_to_area, saleE,
                   curr, mFixed, mSale, c_status, n_solves, iteration, k, max_change>>

\* lines 64-71: stop when the largest change is below tol, or at the cap
C_ConvTest ==
    /\ pc = "c_conv"
    /\ IF BelowTol(max_change)
       THEN pc' = "c_final" /\ log' = "converged"
       ELSE IF iteration < MaxIter
            THEN pc' = "c_iter" /\ log' = log
            ELSE pc' = "c_final" /\ log' = "max_iter"
    /\ UNCHANGED callVars
    /\ UNCHANGED modelVars
    /\ UNCHANGED <<strategic, steps, ret, solveVars, suppliers, tech_to_area, saleE,
                   curr, mFixed, mSale, c_status, n_solves, iteration, k, max_change>>

\* lines 76-79: rebuild the model and fix all strategic sales
C_FinalBuildAndFix ==
    /\ pc = "c_final"
    /\ LET m == fix_all_sales(FreshModel, 1)
       IN mFixed' = m.fixed /\ mSale' = m.value
    /\ pc' = "c_final_solve"
    /\ UNCHANGED callVars
    /\ UNCHANGED modelVars
    /\ UNCHANGED <<strategic, steps, ret, solveVars, suppliers, tech_to_area, saleE,
                   curr, c_status, n_solves, iteration, k, max_change, log>>

\* lines 81-88: solve the final model and return (final_model, curr)
C_FinalSolve ==
    /\ pc = "c_final_solve"
    /\ \E st \in Status : \E l \in LoadedAfter(st, FALSE) :
         /\ c_status' = st
         /\ IF l THEN mSale' \in SaleAfter(mFixed, mSale) ELSE mSale' = mSale
    /\ n_solves' = n_solves + 1
    /\ pc' = "c_return"
    /\ UNCHANGED callVars
    /\ UNCHANGED modelVars
    /\ UNCHANGED <<strategic, steps, ret, solveVars, suppliers, tech_to_area, saleE,
                   curr, mFixed, iteration, k, max_change, log>>

\* line 88 seen from a direct caller: the pair (final_model, curr)
C_ReturnToCaller ==
    /\ pc = "c_return"
    /\ entry = "run_cournot"
    /\ ret' = "final_model,curr"
    /\ pc' = "done"
    /\ UNCHANGED <<strategic, steps, solveVars, cournotVars, callVars, modelVars>>

\* main(), lines 60-62: export the final model and return it
StrategicExport ==
    /\ pc = "c_return"
    /\ entry = "main"
    /\ steps' = Append(steps, "export_results")
    /\ ret' = "final_model"
    /\ pc' = "done"
    /\ UNCHANGED callVars
    /\ UNCHANGED modelVars
    /\ UNCHANGED <<strategic, solveVars, cournotVars>>

Next ==
    \/ Dispatch
    \/ SolveMIP
    \/ RetryAmbiguous
    \/ NoRetry
    \/ BranchInfeasible
    \/ BranchUnbounded
    \/ ReportRay
    \/ BranchOptimal
    \/ BranchOther
    \/ ReadMipObjective
    \/ ReadMipObjectiveUnloaded
    \/ CheckViolations
    \/ FixBinaries
    \/ RelaxIntegers
    \/ LPResolve
    \/ ReadLpObjective
    \/ Export
    \/ C_BaseSolve
    \/ C_CheckSuppliers
    \/ C_Initialize
    \/ C_IterStart
    \/ C_BuildAndFix
    \/ C_SubSolve
    \/ C_Update
    \/ C_ConvTest
    \/ C_FinalBuildAndFix
    \/ C_FinalSolve
    \/ C_ReturnToCaller
    \/ StrategicExport

Spec == Init /\ [][Next]_vars

\* every solver call returns and the interpreter keeps executing statements
FairSpec == Spec /\ WF_vars(Next)

(***************************************************************************)
(* The storage rows of the built model (build_model: define_sets,          *)
(* define_params, define_variables, add_constraints) for one storage       *)
(* technology g of G_s, and the solutions that satisfy them.  Fractions    *)
(* are kept exact: Fe = FeNum / FeDen, out_frac[g, e] = sigma_out[e] /     *)
(* OutDen, and every row is compared after multiplying by the denominators.*)
(***************************************************************************)

RECURSIVE SumOver(_, _)
SumOver(f, S) ==
    IF S = {} THEN 0
    ELSE LET e == CHOOSE x \in S : TRUE IN f[e] + SumOver(f, S \ {e})

\* sets.py line 32: the carriers e with (g, e) in f_out
f_out == {e \in Carriers : sigma_out[e] > 0}

\* parameters.py lines 22-24: tot_out, and Fe = tot_out / tot_in, or 1.0
\* without inputs
tot_out == SumOver(sigma_out, Carriers)
FeNum == IF sum_in_raw > 0 THEN tot_out ELSE 1
FeDen == IF sum_in_raw > 0 THEN sum_in_raw ELSE 1

\* parameters.py lines 33-36: out_frac[g, e] = sigma_out[g, e] / OutDen
OutDen == IF tot_out > 0 THEN tot_out ELSE 1

\* preprocess.py lines 14, 36-38: Capacity := StorageCap, scaled by sum_in_raw
capacity == sum_in_raw * soc_max

\* constraints.py lines 26-29 and 40-43: discharge, times OutDen
DischargeNum(gen) == SumOver([e \in f_out |-> gen[e] * sigma_out[e]], f_out)

\* variables.py lines 14-16: domain=NonNegativeReals
NonNegativeReals(x) == x >= 0

\* variables.py line 24: domain=Binary
Binary(x) == x \in {0, 1}

\* constraints.py lines 22-30, times FeDen * OutDen
storage_balance_rule(tt, prev_volume, vol, fu, gen) ==
    LET prev == IF tt = 1 THEN soc_init ELSE prev_volume
    IN vol * FeDen * OutDen =
          prev * FeDen * OutDen + fu * FeNum * OutDen - DischargeNum(gen) * FeDen

\* constraints.py lines 32-35
charging_max(fu, ch) == fu <= capacity * ch

discharging_max_sameMode(gen, ch) == DischargeNum(gen) <= capacity * ch * OutDen

\* constraints.py lines 37-44, times OutDen
discharging_max(gen, ch) == DischargeNum(gen) <= capacity * (1 - ch) * OutDen

volume_upper_rule_capacity(vol) == vol <= capacity

\* constraints.py lines 61-62
volume_upper_rule(vol) == vol <= soc_max

volume_final_soc_multiStep(tt, vol) == (tt = horizon /\ horizon > 1) => vol = soc_init

\* constraints.py lines 65-66: the row of T.last()
volume_final_soc(tt, vol) == tt = horizon => vol = soc_init

\* the data of a storage technology and the horizon (cfg.n_test slices T)
InitStorage ==
    /\ pc = "storage"
    /\ entry = "build_model"
    /\ tol = TolNum
    /\ strategic = FALSE
    /\ NothingRun
    /\ NoUCModel
    /\ NoBuild
    /\ NoWeeks
    /\ NoMix
    /\ horizon \in 1..NT
    /\ soc_init \in 0..MaxQty
    /\ soc_max \in 0..MaxQty
    /\ sum_in_raw \in SigmaInVals
    /\ sigma_out \in [Carriers -> SigmaOutVals]
    /\ step = 0
    /\ Volume = 0
    /\ Fuelusetotal = 0
    /\ Generation = <<>>
    /\ Charge = 0

\* the solver's values for the next time step: any values inside the
\* variable domains that satisfy the ProductionStorage, ChargingStorageMax,
\* DisChargingStorageMax and VolumeUpper rows of that step, and the
\* TerminalSOC row at T.last() (add_constraints, lines 297-303)
S_AssignStep ==
    /\ pc = "storage"
    /\ step < horizon
    /\ \E vol \in -1..MaxQty, fu \in -1..MaxQty, ch \in -1..2 :
       \E gen \in [f_out -> -1..MaxQty] :
         /\ NonNegativeReals(vol)
         /\ NonNegativeReals(fu)
         /\ \A e \in f_out : NonNegativeReals(gen[e])
         /\ Binary(ch)
         /\ storage_balance_rule(step + 1, Volume, vol, fu, gen)
         /\ charging_max(fu, ch)
         /\ discharging_max(gen, ch)
         /\ volume_upper_rule(vol)
         /\ volume_final_soc(step + 1, vol)
         /\ Volume' = vol
         /\ Fuelusetotal' = fu
         /\ Generation' = gen
         /\ Charge' = ch
    /\ step' = step + 1
    /\ UNCHANGED <<horizon, soc_init, soc_max, sum_in_raw, sigma_out>>
    /\ UNCHANGED <<pc, strategic, steps, ret, solveVars, cournotVars, callVars, ucVars,
                   buildVars, weekVars, mixVars>>

NextStorage == S_AssignStep

SpecStorage == InitStorage /\ [][NextStorage]_vars

(***************************************************************************)
(* The unit-commitment rows of the built model (Capacity, MinimumLoad,     *)
(* StartupCost) for one technology g, and the solutions that satisfy them. *)
(* The minimum-load fraction is orig_min / MinDen.                         *)
(***************************************************************************)

\* preprocess.py line 28: g is in UC when its raw Minimum is positive
InUC == orig_min > 0

\* preprocess.py lines 36-38: Capacity = sum_in_raw * orig_cap
scaled_capacity == sum_in_raw * orig_cap

\* preprocess.py lines 32-33: Minimum = sum_in_raw * orig_cap * orig_min for
\* g in UC, the raw value otherwise; times MinDen
MinimumNum == IF InUC THEN sum_in_raw * orig_cap * orig_min ELSE orig_min

capacity_rule_noOnline(fu, on) == InUC => scaled_capacity >= fu

\* constraints.py lines 227-230
capacity_rule(fu, on) == InUC => scaled_capacity * on >= fu

\* constraints.py lines 233-236, times MinDen
minimum_load_rule(fu, on) ==
    (InUC /\ MinimumNum > 0) => fu * MinDen >= MinimumNum * on

startup_cost_rule_skipFirst(tt, prev_online, sc, on) ==
    (InUC /\ cstart > 0 /\ tt # 1) => sc >= cstart * (on - prev_online)

\* constraints.py lines 239-244
startup_cost_rule(tt, prev_online, sc, on) ==
    (InUC /\ cstart > 0) =>
        LET prev_on == IF tt = 1 THEN 0 ELSE prev_online
        IN sc >= cstart * (on - prev_on)

\* the data of one technology and the horizon
InitUC ==
    /\ pc = "uc"
    /\ entry = "build_model"
    /\ tol = TolNum
    /\ strategic = FALSE
    /\ NothingRun
    /\ NoBuild
    /\ NoWeeks
    /\ NoMix
    /\ horizon \in 1..NT
    /\ sum_in_raw \in SigmaInVals
    /\ orig_cap \in 0..MaxQty
    /\ orig_min \in 0..MinDen
    /\ cstart \in 0..MaxQty
    /\ step = 0
    /\ Fuelusetotal = 0
    /\ Online = 0
    /\ Startcost = 0
    /\ soc_init = 0
    /\ soc_max = 0
    /\ sigma_out = [e \in Carriers |-> 0]
    /\ Volume = 0
    /\ Generation = <<>>
    /\ Charge = 0

\* the solver's values for the next time step: any values inside the
\* variable domains (variables.py lines 14, 22, 23) that satisfy the
\* Capacity, MinimumLoad and StartupCost rows of that step
\* (add_constraints, lines 311-313)
U_AssignStep ==
    /\ pc = "uc"
    /\ step < horizon
    /\ \E fu \in -1..(MaxQty * MaxQty), on \in -1..2, sc \in -1..MaxQty :
         /\ NonNegativeReals(fu)
         /\ NonNegativeReals(sc)
         /\ Binary(on)
         /\ capacity_rule(fu, on)
         /\ minimum_load_rule(fu, on)
         /\ startup_cost_rule(step + 1, Online, sc, on)
         /\ Fuelusetotal' = fu
         /\ Online' = on
         /\ Startcost' = sc
    /\ step' = step + 1
    /\ UNCHANGED <<horizon, sum_in_raw, orig_cap, orig_min, cstart>>
    /\ UNCHANGED <<soc_init, soc_max, sigma_out, Volume, Generation, Charge>>
    /\ UNCHANGED <<pc, strategic, steps, ret, solveVars, cournotVars, callVars, buildVars,
                   weekVars, mixVars>>

NextUC == U_AssignStep

SpecUC == InitUC /\ [][NextUC]_vars

(***************************************************************************)
(* build_model: the rows add_constraints generates for the technology g1,  *)
(* the areas and the carriers, family by family, and the slack terms of    *)
(* the Profit definition.  An exception raised by a rule ends the build.   *)
(***************************************************************************)

\* model.G: the technology of the data
G == {"g1"}

\* the (area, carrier) columns of Demand.inc
DemandPairs == {<<"a1", "e1">>, <<"a2", "e2">>}

\* loader.py lines 358-363: one key per demand column and time step
DemandKeys == {<<p[1], p[2], tt>> : p \in DemandPairs, tt \in T}

\* the demand series: the first column varies, the second is zero throughout
DemandChoices ==
    {[key \in DemandKeys |-> IF key[1] = "a1" THEN f[key[3]] ELSE 0] :
        f \in [T -> {0, 1}]}

\* sets.py lines 43-44: the pairs with a positive buy price, a positive sell price
BuyChoices == {{}, {<<"a1", "e1">>}, DemandPairs}
SaleChoices == {{}, {<<"a1", "e1">>}, {<<"a1", "e2">>}, DemandPairs}

\* the aggregated targets of the data: none, or one for carrier e1 in area a1
TargetChoices == {<<>>, [key \in {<<1, <<"a1", "e1">>>>} |-> 1]}

\* sets.py line 33: the carriers e with (g, e) in f_in
f_in == {e \in Carriers : sigma_in[e] > 0}

\* sets.py line 80
DemandSet == DOMAIN demand

\* sets.py lines 83-84
DemandFuel == DOMAIN DemandTarget

\* constraints.py lines 6-10: a row unless capacity[g] <= 0
fuelmix_rule(g, e, tt) == ~(scaled_capacity <= 0)

production_rule_withStorage(g, e, tt) == ~(scaled_capacity <= 0)

\* constraints.py lines 13-19: a row unless capacity[g] <= 0 or g in G_s
production_rule(g, e, tt) == ~(scaled_capacity <= 0 \/ g \in G_s)

\* constraints.py lines 191-196
availability_rule(g, tt) == ~(g \in G_s \/ scaled_capacity <= 0)

balance_rule_noTech(a, e, tt) ==
    LET has_buy == <<a, e>> \in buy_pairs
        has_sale == <<a, e>> \in sale_pairs
    IN has_buy \/ has_sale

\* constraints.py lines 69-80: a row unless none of has_buy, has_sale, has_tech
balance_rule(a, e, tt) ==
    LET has_buy == <<a, e>> \in buy_pairs
        has_sale == <<a, e>> \in sale_pairs
        techs_in_area == {tech \in G : <<a, tech>> \in location}
        has_tech == \E tech \in techs_in_area : e \in f_in \/ e \in f_out
    IN has_buy \/ has_sale \/ has_tech

\* the index set DemandTime is declared over: model.DemandSet
\* (EnerHub2X constraints.py line 305), model.saleE x model.T
\* (src constraints.py line 279)
DemandTimeIndex ==
    IF variant = "EnerHub2X" THEN DemandSet
    ELSE {<<p[1], p[2], tt>> : p \in sale_pairs, tt \in T}

\* constraints.py line 111: m.demand[a,e,tt] has no value outside DemandSet
demand_lookup_fails(a, e) == \E tt \in T : <<a, e, tt>> \notin DemandSet

\* constraints.py lines 111-113: a row unless the demand of (a, e) summed
\* over the horizon is <= 0
demand_time_rule(a, e, tt) ==
    ~(SumOver([t2 \in T |-> demand[<<a, e, t2>>]], T) <= 0)

\* the slack variables a DemandTime row contains: both, unguarded
\* (EnerHub2X constraints.py lines 118-119); each under its membership
\* guard (src constraints.py lines 122-123)
demand_time_slacks(a, e) ==
    IF variant = "EnerHub2X" THEN {"SlackDemandImport", "SlackDemandExport"}
    ELSE {v \in {"SlackDemandImport"} : <<a, e>> \in buy_pairs}
         \cup {v \in {"SlackDemandExport"} : <<a, e>> \in sale_pairs}

\* constraints.py lines 282-288: the sum reads m.weekOfT[t] for a
\* technology of the area that delivers the fuel, and the model has no
\* attribute of that name (parameters.py line 78 defines WeekOfT)
target_demand_reads_weekOfT(stepkey, area_fuel) ==
    LET area == area_fuel[1]
        fuel == area_fuel[2]
    IN \E g \in G : fuel \in f_out /\ <<area, g>> \in location

\* the keys SlackDemandImport and SlackDemandExport are declared over:
\* variables.py lines 20-21 for the src tree; the keys of DemandSet for
\* EnerHub2X, whose rule and Profit definition index both at every key
SlackIndex(v) ==
    IF variant = "EnerHub2X" THEN DemandSet
    ELSE LET pairs == IF v = "SlackDemandImport" THEN buy_pairs ELSE sale_pairs
         IN {<<p[1], p[2], tt>> : p \in pairs, tt \in T}

\* the data build_model loads
InitBuild ==
    /\ pc = "Fuelmix"
    /\ entry = "build_model"
    /\ tol = TolNum
    /\ strategic = FALSE
    /\ NothingRun
    /\ NoWeeks
    /\ NoMix
    /\ orig_cap \in {0, 1}
    /\ orig_min = 0
    /\ cstart = 0
    /\ Online = 0
    /\ Startcost = 0
    /\ variant \in {"EnerHub2X", "src"}
    /\ buy_pairs \in BuyChoices
    /\ sale_pairs \in SaleChoices
    /\ location \in {{<<a, "g1">>} : a \in Areas}
    /\ sigma_in \in [Carriers -> SigmaOutVals]
    /\ sigma_out \in [Carriers -> SigmaOutVals]
    /\ G_s \in SUBSET G
    /\ demand \in DemandChoices
    /\ DemandTarget \in TargetChoices
    /\ rows = [fam \in Families |-> {}]
    /\ profit = [v \in SlackNames |-> {}]
    /\ raised = "none"
    /\ sum_in_raw = SumOver(sigma_in, Carriers)
    /\ horizon = NT
    /\ soc_init = 0
    /\ soc_max = 0
    /\ step = 0
    /\ Volume = 0
    /\ Fuelusetotal = 0
    /\ Generation = <<>>
    /\ Charge = 0

\* what a step of build_model leaves alone
BuildFrame ==
    /\ UNCHANGED <<variant, buy_pairs, sale_pairs, location, sigma_in, G_s, demand,
                   DemandTarget>>
    /\ UNCHANGED <<strategic, steps, ret, solveVars, cournotVars, callVars, storageVars,
                   ucVars, weekVars, mixVars>>

\* add_constraints, line 295
B_Fuelmix ==
    /\ pc = "Fuelmix"
    /\ rows' = [rows EXCEPT !["Fuelmix"] =
                    {<<g, e, tt>> : g \in G, e \in f_in, tt \in T}
                    \cap {idx \in G \X Carriers \X T : fuelmix_rule(idx[1], idx[2], idx[3])}]
    /\ pc' = "Production"
    /\ UNCHANGED <<profit, raised>>
    /\ BuildFrame

\* add_constraints, line 296
B_Production ==
    /\ pc = "Production"
    /\ rows' = [rows EXCEPT !["Production"] =
                    {<<g, e, tt>> : g \in G, e \in f_out, tt \in T}
                    \cap {idx \in G \X Carriers \X T : production_rule(idx[1], idx[2], idx[3])}]
    /\ pc' = "Balance"
    /\ UNCHANGED <<profit, raised>>
    /\ BuildFrame

\* add_constraints, line 304
B_Balance ==
    /\ pc = "Balance"
    /\ rows' = [rows EXCEPT !["Balance"] =
                    {idx \in Areas \X Carriers \X T : balance_rule(idx[1], idx[2], idx[3])}]
    /\ pc' = "DemandTime"
    /\ UNCHANGED <<profit, raised>>
    /\ BuildFrame

\* add_constraints, line 305 (EnerHub2X) and line 279 (src)
B_DemandTime ==
    /\ pc = "DemandTime"
    /\ IF \E idx \in DemandTimeIndex : demand_lookup_fails(idx[1], idx[2])
       THEN /\ raised' = "KeyError"
            /\ pc' = "raised"
            /\ UNCHANGED rows
       ELSE /\ rows' = [rows EXCEPT !["DemandTime"] =
                           {idx \in DemandTimeIndex : demand_time_rule(idx[1], idx[2], idx[3])}]
            /\ pc' = "Availability"
            /\ UNCHANGED raised
    /\ UNCHANGED profit
    /\ BuildFrame

\* add_constraints, line 308; TargetDemand follows in EnerHub2X only
B_Availability ==
    /\ pc = "Availability"
    /\ rows' = [rows EXCEPT !["Availability"] =
                    {idx \in (G \ G_s) \X T : availability_rule(idx[1], idx[2])}]
    /\ pc' = (IF variant = "EnerHub2X" THEN "TargetDemand" ELSE "objective")
    /\ UNCHANGED <<profit, raised>>
    /\ BuildFrame

\* add_constraints, line 314
B_TargetDemand ==
    /\ pc = "TargetDemand"
    /\ IF \E idx \in DemandFuel : target_demand_reads_weekOfT(idx[1], idx[2])
       THEN /\ raised' = "AttributeError"
            /\ pc' = "raised"
            /\ UNCHANGED rows
       ELSE /\ rows' = [rows EXCEPT !["TargetDemand"] = DemandFuel]
            /\ pc' = "objective"
            /\ UNCHANGED raised
    /\ UNCHANGED profit
    /\ BuildFrame

\* define_objective, objective.py lines 37-40 and 47: both demand slacks at
\* every key of DemandSet, and no other slack
B_ProfitDefinition ==
    /\ pc = "objective"
    /\ IF \E v \in {"SlackDemandImport", "SlackDemandExport"} :
             \E key \in DemandSet : key \notin SlackIndex(v)
       THEN /\ raised' = "KeyError"
            /\ pc' = "raised"
            /\ UNCHANGED profit
       ELSE /\ profit' = [v \in SlackNames |->
                             IF v \in {"SlackDemandImport", "SlackDemandExport"}
                             THEN DemandSet ELSE {}]
            /\ pc' = "built"
            /\ UNCHANGED raised
    /\ UNCHANGED rows
    /\ BuildFrame

NextBuild ==
    \/ B_Fuelmix
    \/ B_Production
    \/ B_Balance
    \/ B_DemandTime
    \/ B_Availability
    \/ B_TargetDemand
    \/ B_ProfitDefinition

SpecBuild == InitBuild /\ [][NextBuild]_vars

(***************************************************************************)
(* build_full_year_week_map(full_hours), one dictionary write per step.    *)
(* The hour labels of full_hours are distinct, so an hour is named by its  *)
(* position in the list; week_map is kept as the number of hours under     *)
(* each label together with the entry written last.                        *)
(***************************************************************************)

\* assign_hours_to_weeks.py line 15: the length the assertion asks for
YearHours == 8760

\* assign_hours_to_weeks.py lines 17-18
base == n_hours \div n_weeks
remainder == n_hours % n_weeks

week_length_lastBuckets(w) == base + (IF w >= n_weeks - remainder THEN 1 ELSE 0)

\* assign_hours_to_weeks.py line 23: length of week w = 0 .. n_weeks - 1
week_length(w) == base + (IF w < remainder THEN 1 ELSE 0)

\* the lists the function is called with: the full year, and lists that
\* are up to MaxOff hours shorter or longer
InitWeeks ==
    /\ pc = "w_assert"
    /\ entry = "build_full_year_week_map"
    /\ tol = TolNum
    /\ strategic = FALSE
    /\ NothingRun
    /\ NoStorageModel
    /\ NoUCModel
    /\ NoBuild
    /\ NoMix
    /\ n_hours \in (YearHours - MaxOff)..(YearHours + MaxOff)
    /\ wk_w = 0
    /\ wk_idx = 0
    /\ wk_left = 0
    /\ wk_sizes = [b \in 1..n_weeks |-> 0]
    /\ wk_last = <<0, 0>>

\* what a step of build_full_year_week_map leaves alone
WeeksFrame ==
    /\ UNCHANGED n_hours
    /\ UNCHANGED <<strategic, steps, ret, solveVars, cournotVars, callVars, storageVars,
                   ucVars, buildVars, mixVars>>

\* line 15: assert len(full_hours) == 8760; lines 17-21
W_Assert ==
    /\ pc = "w_assert"
    /\ pc' = (IF n_hours = YearHours THEN "w_week" ELSE "w_AssertionError")
    /\ UNCHANGED <<wk_w, wk_idx, wk_left, wk_sizes, wk_last>>
    /\ WeeksFrame

\* lines 22-25: the next w of range(n_weeks), its length and label
W_WeekStart ==
    /\ pc = "w_week"
    /\ wk_w < n_weeks
    /\ wk_left' = week_length(wk_w)
    /\ pc' = "w_assign"
    /\ UNCHANGED <<wk_w, wk_idx, wk_sizes, wk_last>>
    /\ WeeksFrame

\* lines 26-27: week_map[full_hours[idx]] = label; idx += 1
W_AssignHour ==
    /\ pc = "w_assign"
    /\ wk_left > 0
    /\ IF wk_idx < n_hours
       THEN /\ wk_sizes' = [wk_sizes EXCEPT ![wk_w + 1] = @ + 1]
            /\ wk_last' = <<wk_idx + 1, wk_w + 1>>
            /\ wk_idx' = wk_idx + 1
            /\ wk_left' = wk_left - 1
            /\ UNCHANGED pc
       ELSE /\ pc' = "w_IndexError"
            /\ UNCHANGED <<wk_sizes, wk_last, wk_idx, wk_left>>
    /\ UNCHANGED wk_w
    /\ WeeksFrame

\* line 25 exhausted: on to the next w
W_WeekEnd ==
    /\ pc = "w_assign"
    /\ wk_left = 0
    /\ wk_w' = wk_w + 1
    /\ pc' = "w_week"
    /\ UNCHANGED <<wk_idx, wk_left, wk_sizes, wk_last>>
    /\ WeeksFrame

\* line 28: return week_map
W_Return ==
    /\ pc = "w_week"
    /\ wk_w = n_weeks
    /\ pc' = "w_returned"
    /\ UNCHANGED <<wk_w, wk_idx, wk_left, wk_sizes, wk_last>>
    /\ WeeksFrame

NextWeeks ==
    \/ W_Assert
    \/ W_WeekStart
    \/ W_AssignHour
    \/ W_WeekEnd
    \/ W_Return

SpecWeeks == InitWeeks /\ [][NextWeeks]_vars

(***************************************************************************)
(* The mix fractions of define_params for one technology g.  The raw mix   *)
(* values are whole numbers; a quotient v/total is a binary floating-point *)
(* number with a significand of MantissaBits bits, rounded to nearest,     *)
(* ties to even, kept as <<m, x>> of value m / 2^x.                        *)
(***************************************************************************)

mix_total_bothMixes(sig) == SumOver(sigma_in, Carriers) + SumOver(sigma_out, Carriers)

\* parameters.py lines 28 and 34: total over the carriers of g
mix_total(sig) == SumOver(sig, Carriers)

\* parameters.py lines 29 and 35: the float v/total, for 0 < v <= total
fdiv(v, total) ==
    LET x == CHOOSE y \in 0..(MantissaBits + total) :
                 /\ 2 ^ (MantissaBits - 1) * total <= v * 2 ^ y
                 /\ v * 2 ^ y < 2 ^ MantissaBits * total
        q == (v * 2 ^ x) \div total
        r == (v * 2 ^ x) % total
        m == IF 2 * r > total \/ (2 * r = total /\ q % 2 = 1) THEN q + 1 ELSE q
    IN <<m, x>>

\* parameters.py lines 26-36: a fraction for every carrier with v > 0
mix_fractions(sig) ==
    [e \in {c \in Carriers : sig[c] > 0} |-> fdiv(sig[e], mix_total(sig))]

\* the raw mixes of the technology
InitMix ==
    /\ pc = "in_frac"
    /\ entry = "define_params"
    /\ tol = TolNum
    /\ strategic = FALSE
    /\ NothingRun
    /\ NoUCModel
    /\ NoWeeks
    /\ NoMix
    /\ sigma_in \in [Carriers -> 0..MaxMix]
    /\ sigma_out \in [Carriers -> 0..MaxMix]
    /\ sum_in_raw = SumOver(sigma_in, Carriers)
    /\ horizon = 0
    /\ soc_init = 0
    /\ soc_max = 0
    /\ step = 0
    /\ Volume = 0
    /\ Fuelusetotal = 0
    /\ Generation = <<>>
    /\ Charge = 0
    /\ variant = "none"
    /\ buy_pairs = {}
    /\ sale_pairs = {}
    /\ location = {}
    /\ G_s = {}
    /\ demand = <<>>
    /\ DemandTarget = <<>>
    /\ rows = [fam \in Families |-> {}]
    /\ profit = [v \in SlackNames |-> {}]
    /\ raised = "none"

\* what a step of define_params leaves alone
MixFrame ==
    /\ UNCHANGED <<strategic, steps, ret, solveVars, cournotVars, callVars, storageVars,
                   ucVars, buildVars, weekVars>>

\* parameters.py lines 28-31
M_InFrac ==
    /\ pc = "in_frac"
    /\ in_frac' = mix_fractions(sigma_in)
    /\ pc' = "out_frac"
    /\ UNCHANGED out_frac
    /\ MixFrame

\* parameters.py lines 32-36
M_OutFrac ==
    /\ pc = "out_frac"
    /\ out_frac' = mix_fractions(sigma_out)
    /\ pc' = "mix_done"
    /\ UNCHANGED in_frac
    /\ MixFrame

NextMix ==
    \/ M_InFrac
    \/ M_OutFrac

SpecMix == InitMix /\ [][NextMix]_vars

(***************************************************************************)
(* Properties                                                              *)
(***************************************************************************)
Executed(stage) == \E n \in 1..Len(steps) : steps[n] = stage

\* the stages of main() that follow a valid MIP solution
PostSolveStages == {"violation_check", "fix_binaries", "relax", "lp_solve",
                    "export_results", "export_inputs"}

\* the solves main() has made of the original MIP, as stages
MipStages == IF mip_solves = 2 THEN <<"mip_solve", "retry_solve">> ELSE <<"mip_solve">>

C2_RetryIffAmbiguous ==
    (mip_term # "none" /\ pc # "retry") =>
        /\ mip_solves = (IF mip_term = "infeasibleOrUnbounded" THEN 2 ELSE 1)
        /\ DualReductions = (mip_term = "infeasibleOrUnbounded")
        /\ Executed("retry_solve") = (mip_term = "infeasibleOrUnbounded")
        /\ SubSeq(steps, 1, mip_solves) = MipStages

C2_Witness ==
    /\ pc = "done"
    /\ mip_term = "infeasibleOrUnbounded"
    /\ mip_solves = 2
    /\ term = "optimal"
    /\ ret = "model"

\* C3: a status that is still infeasibleOrUnbounded after the retry ends
\* the run with the failure message: no IIS, no ray LP, no LP re-solve and
\* no export follows the two MIP solves.
C3_StillAmbiguousEndsRun ==
    (mip_solves = 2 /\ term = "infeasibleOrUnbounded") =>
        /\ steps = <<"mip_solve", "retry_solve">>
        /\ lp_term = "none"
        /\ pc \in {"branch", "done"}
        /\ pc = "done" => ret = "message"

C3_Witness ==
    /\ pc = "done"
    /\ mip_solves = 2
    /\ term = "infeasibleOrUnbounded"
    /\ ret = "message"

\* C4: with status unbounded a fresh copy is built, relaxed and solved, the
\* ray is reported when that LP is unbounded, and main() returns None:
\* nothing is exported and the original model is neither relaxed nor fixed,
\* whatever the status of the relaxed solve.
C4_UnboundedDiagnosesAndReturns ==
    (term = "unbounded" /\ pc \notin {"retry", "branch"}) =>
        /\ pc \in {"ray", "done"}
        /\ lp_term \in Status
        /\ steps \in {MipStages \o <<"ray_build", "ray_relax", "ray_solve">>,
                      MipStages \o <<"ray_build", "ray_relax", "ray_solve", "ray_report">>}
        /\ Executed("ray_report") => lp_term = "unbounded"
        /\ ~relaxed
        /\ \A b \in Bins : ~binFixed[b]
        /\ pc = "done" => ret = "None"

C4_Witness ==
    /\ pc = "done"
    /\ term = "unbounded"
    /\ lp_term = "optimal"
    /\ ret = "None"
    /\ ~Executed("export_results")

C6_NoSuppliersFailsBeforeAnySolve ==
    (c_status # "none" /\ suppliers = <<>> /\ pc # "c_check") =>
        /\ ret = "RuntimeError"
        /\ n_solves = 0

\* C7: after Initialize, the starting strategy of every sited strategic
\* supplier is the centralized Sale[area, commodity, t] when (area,
\* commodity) is a tradable sell pair (and the centralized solve produced a
\* solution), and 0 otherwise.
C7_StartingStrategyIsCentralizedSale ==
    (pc = "c_iter" /\ iteration = 0) =>
        \A tech \in Range(suppliers) : \A t \in T :
            LET area == tech_to_area[tech]
                idx  == <<area, co2_label, t>>
            IN area \in Areas =>
                 IF <<area, co2_label>> \in saleE
                 THEN mSale[idx] # NoValue => curr[tech][t] = mSale[idx]
                 ELSE curr[tech][t] = 0

\* C8: when the solver is invoked for supplier i, the sale variables of
\* every other strategic supplier with a tradable sell pair are fixed at
\* that supplier's stored strategy.
C8_CompetitorsFixedAtStrategy ==
    pc = "c_solve" =>
        \A j \in Range(suppliers) \ {suppliers[k]} : \A t \in T :
            LET area == tech_to_area[j]
                idx  == <<area, co2_label, t>>
            IN (area \in Areas /\ <<area, co2_label>> \in saleE) =>
                 (mFixed[idx] /\ mSale[idx] = curr[j][t])

\* C9: when the solver is invoked for supplier i, none of i's own sale
\* variables is fixed, also when another strategic supplier shares i's area.
C9_OwnSaleFree ==
    pc = "c_solve" =>
        \A t \in T :
            LET idx == <<tech_to_area[suppliers[k]], co2_label, t>>
            IN idx \in DOMAIN mFixed => ~mFixed[idx]

C9_Witness ==
    /\ pc = "c_solve"
    /\ Len(suppliers) = 2
    /\ tech_to_area["g1"] = tech_to_area["g2"]
    /\ <<tech_to_area["g1"], co2_label>> \in saleE

\* C10: the update after supplier i's sub-solve sets, at every time step at
\* which i has a sale variable, the stored strategy to
\* damping*solved + (1-damping)*old.
C10_UpdateIsDamped ==
    [][(pc = "c_update" /\ pc' \in {"c_build", "c_conv"}) =>
          \A t \in T :
              LET i   == suppliers[k]
                  idx == <<tech_to_area[i], co2_label, t>>
              IN (idx \in DOMAIN mSale /\ mSale[idx] # NoValue) =>
                   curr'[i][t] = (DampNum * mSale[idx]
                                  + (DampDen - DampNum) * curr[i][t]) \div DampDen]_vars

\* the positions inside the iteration loop of run_cournot (lines 38-71)
LoopPcs == {"c_iter", "c_build", "c_solve", "c_update", "c_conv"}

\* the positions between the loop and the return (lines 73-88)
AfterLoopPcs == {"c_final", "c_final_solve", "c_return"}

\* what a run that printed [INFO] Converged hands to its caller
ConvergedReturns == {"final_model", "final_model,curr"}

\* C11: max_change starts each iteration at 0 and every update raises it to
\* the largest |updated - old| of the acting supplier; the loop is left at
\* the end of the first iteration whose max_change is below tol, an
\* iteration with max_change >= tol is followed by another one while the
\* cap is not reached, and no sub-solve follows once the loop is left.
C11_StopsAtFirstIterationBelowTol ==
    [][/\ (pc = "c_iter" /\ pc' = "c_build") => max_change' = 0
       /\ (pc = "c_update" /\ pc' \in {"c_build", "c_conv"}) =>
             max_change' = Max(max_change,
                               MaxOf({0} \cup {Abs(curr'[suppliers[k]][t]
                                                   - curr[suppliers[k]][t]) : t \in T}))
       /\ pc = "c_conv" =>
             IF max_change * TolDen < tol * Scale
             THEN pc' = "c_final"
             ELSE iteration < MaxIter => pc' = "c_iter"
       /\ pc \in AfterLoopPcs => pc' \notin LoopPcs]_vars

C11_Witness ==
    /\ pc = "c_final"
    /\ log = "converged"
    /\ iteration = 1
    /\ Len(suppliers) = 2
    /\ max_change * TolDen < tol * Scale

\* C12: run_cournot always terminates; it runs at most max_iter iterations
\* and max_iter * |S| sub-solves, executes Finalize exactly once before it
\* returns, and reaching the cap does not raise.
C12_TerminatesWithinCap ==
    /\ (pc = "cournot") ~> (pc = "done")
    /\ [](/\ iteration <= MaxIter
          /\ pc \in LoopPcs => n_solves <= 1 + MaxIter * Len(suppliers)
          /\ pc = "c_return" => n_solves = 1 + iteration * Len(suppliers) + 1
          /\ (pc = "done" /\ log # "none") =>
                /\ ret \in ConvergedReturns
                /\ n_solves = 1 + iteration * Len(suppliers) + 1)

C12_Witness ==
    /\ pc = "done"
    /\ log = "max_iter"
    /\ iteration = MaxIter
    /\ Len(suppliers) = 2
    /\ n_solves = 2 * MaxIter + 2
    /\ ret = "final_model,curr"

\* C13: when the final solve is about to run, every sale variable of every
\* strategic supplier with a tradable sell pair is fixed at the final
\* stored strategy.
C13_FinalizeFixesAllStrategicSales ==
    pc = "c_final_solve" =>
        \A j \in Range(suppliers) : \A t \in T :
            LET area == tech_to_area[j]
                idx  == <<area, co2_label, t>>
            IN (area \in Areas /\ <<area, co2_label>> \in saleE) =>
                 (mFixed[idx] /\ mSale[idx] = curr[j][t])

\* C14: a run that ended at the iteration cap hands its caller something
\* different from what a converged run hands over.
C14_NonConvergedIsLabeled ==
    (pc = "done" /\ log = "max_iter") => ret \notin ConvergedReturns

\* C15: the stored strategies are written only by Initialize and by the
\* update of the acting supplier, which leaves every other supplier's
\* entry alone; fixing, solving and Finalize leave them unchanged.
C15_OnlyOwnerUpdateWritesStrategy ==
    [][/\ pc \notin {"c_init", "c_update"} => curr' = curr
       /\ pc = "c_update" =>
             /\ DOMAIN curr' = DOMAIN curr
             /\ \A j \in DOMAIN curr \ {suppliers[k]} : curr'[j] = curr[j]]_vars

C15_Witness ==
    /\ pc = "c_build"
    /\ k = 2
    /\ Len(suppliers) = 2
    /\ tech_to_area["g1"] \in Areas
    /\ tech_to_area["g2"] \in Areas
    /\ saleE = Areas \X {co2_label}

\* C16: a base, sub- or final solve that ends with a non-optimal status
\* makes run_cournot fail: no update, further iteration, Finalize or export
\* follows it.
C16_SolverFailurePropagates ==
    (c_status \notin {"none", "optimal"}) =>
        /\ pc \in {"c_check", "c_update", "c_return", "done"}
        /\ pc = "done" => ret \notin ConvergedReturns

\* C17: with two strategic suppliers selling in different areas, the loop
\* ends with both strategies at the Cournot quantity (a - c) / (3 b).
C17_ConvergesToCournotQuantity ==
    (/\ pc = "c_final"
     /\ Len(suppliers) = 2
     /\ tech_to_area["g1"] \in Areas
     /\ tech_to_area["g2"] \in Areas
     /\ tech_to_area["g1"] # tech_to_area["g2"]
     /\ saleE = Areas \X {co2_label}) =>
        \A j \in Range(suppliers) : \A t \in T : curr[j][t] = CournotQ

\* C18: in a solution that covers the whole horizon the volume at the last
\* time step is soc_init, also when the horizon is a single step.
C18_TerminalVolumeIsInitial ==
    (pc = "storage" /\ step >= 1 /\ step = horizon) => Volume = soc_init

C18_Witness ==
    /\ pc = "storage"
    /\ horizon = 1
    /\ step = 1
    /\ soc_init > 0
    /\ Volume = soc_init

\* C19: the volume of every solved time step lies in [0, soc_max] and
\* follows Volume[t] = (soc_init at the first step, else Volume[t-1])
\* + Fuelusetotal[t] * Fe - discharge[t].
C19_VolumeWithinBounds ==
    [][(pc = "storage" /\ step' = step + 1) =>
          LET prev      == IF step' = 1 THEN soc_init ELSE Volume
              discharge == SumOver([e \in f_out |-> Generation'[e] * sigma_out[e]], f_out)
          IN /\ 0 <= Volume'
             /\ Volume' <= soc_max
             /\ Volume' * FeDen * OutDen =
                    prev * FeDen * OutDen + Fuelusetotal' * FeNum * OutDen
                    - discharge * FeDen]_vars

C19_Witness ==
    /\ pc = "storage"
    /\ step = 1
    /\ horizon > 1
    /\ Fuelusetotal > 0
    /\ Volume = soc_max
    /\ soc_max > soc_init

\* C20: in no solved time step are the intake Fuelusetotal and the
\* mix-weighted discharge both positive; the intake is at most capacity
\* when Charge is 1 and the discharge at most capacity when Charge is 0.
C20_NoSimultaneousChargeDischarge ==
    (pc = "storage" /\ step >= 1) =>
        LET dischargeNum == SumOver([e \in f_out |-> Generation[e] * sigma_out[e]], f_out)
        IN /\ ~(Fuelusetotal > 0 /\ dischargeNum > 0)
           /\ Charge = 1 => Fuelusetotal <= capacity
           /\ Charge = 0 => dischargeNum <= capacity * OutDen

C20_Witness ==
    /\ pc = "storage"
    /\ step >= 1
    /\ Charge = 0
    /\ Fuelusetotal = 0
    /\ SumOver([e \in f_out |-> Generation[e] * sigma_out[e]], f_out) > 0
    /\ f_out = Carriers

\* C29: when the solver is invoked for the supplier at position k of an
\* iteration, the sale variables of the competitors processed earlier in
\* the iteration and of those processed later are all fixed at the
\* entries of the shared strategy dictionary as it stands at that moment
\* (already updated for the earlier ones, from the previous iteration for
\* the later ones).
C29_SequentialUpdatesVisible ==
    (pc = "c_solve" /\ Len(suppliers) >= 2) =>
        LET fixedAtCurrent(n) ==
                \A t \in T :
                    LET j    == suppliers[n]
                        area == tech_to_area[j]
                        idx  == <<area, co2_label, t>>
                    IN (area \in Areas /\ <<area, co2_label>> \in saleE) =>
                          (mFixed[idx] /\ mSale[idx] = curr[j][t])
        IN /\ \A n \in 1..(k - 1) : fixedAtCurrent(n)
           /\ \A n \in (k + 1)..Len(suppliers) : fixedAtCurrent(n)

\* C30: every stored strategy value is non-negative, and an update moves
\* the value of each time step with a solved sale to a point between the
\* old value and the solved quantity, with |updated - old| =
\* damping * |solved - old|.
C30_UpdateStaysBetween ==
    [][/\ \A j \in DOMAIN curr' : \A t \in T : curr'[j][t] >= 0
       /\ (pc = "c_update" /\ pc' \in {"c_build", "c_conv"}) =>
             \A t \in T :
                 LET i      == suppliers[k]
                     idx    == <<tech_to_area[i], co2_label, t>>
                     old    == curr[i][t]
                     solved == mSale[idx]
                 IN (idx \in DOMAIN mSale /\ mSale[idx] # NoValue) =>
                      /\ curr'[i][t] >= (IF old < solved THEN old ELSE solved)
                      /\ curr'[i][t] <= (IF old < solved THEN solved ELSE old)
                      /\ DampDen * Abs(curr'[i][t] - old)
                            = DampNum * Abs(solved - old)]_vars

\* C22: in every solved time step of a technology of UC, Online = 0 gives
\* Fuelusetotal = 0, and Online = 1 with a minimum-load fraction f > 0
\* gives Fuelusetotal >= f * (sum_in_raw * rated capacity).
C22_OnlineGatesIntake ==
    (pc = "uc" /\ step >= 1 /\ orig_min > 0) =>
        /\ Online = 0 => Fuelusetotal = 0
        /\ Online = 1 => Fuelusetotal * MinDen >= orig_min * (sum_in_raw * orig_cap)

C22_Witness ==
    /\ pc = "uc"
    /\ step = 2
    /\ orig_min = 1
    /\ sum_in_raw = 2
    /\ orig_cap = 2
    /\ Online = 1
    /\ Fuelusetotal = 2

\* C27: for a technology of UC with cstart > 0, the Startcost of every
\* solved time step is at least cstart * (Online[t] - Online[t-1]), with
\* offline taken as the status before the first step, and Startcost is
\* never negative.
C27_StartupCostLowerBound ==
    [][(pc = "uc" /\ step' = step + 1) =>
          /\ Startcost' >= 0
          /\ (orig_min > 0 /\ cstart > 0) =>
                /\ Startcost' >= cstart * (Online' - (IF step' = 1 THEN 0 ELSE Online))
                /\ (step' = 1 /\ Online' = 1) => Startcost' >= cstart]_vars

C27_Witness ==
    /\ pc = "uc"
    /\ step = 1
    /\ orig_min > 0
    /\ cstart = 2
    /\ Online = 1
    /\ Startcost = cstart

\* the stages of build_model that follow the Balance family
AfterBalance == {"DemandTime", "Availability", "TargetDemand", "objective", "built"}

\* the stages of build_model that follow the DemandTime family
AfterDemandTime == {"Availability", "TargetDemand", "objective", "built"}

\* the stages of build_model that follow the Availability family
AfterAvailability == {"TargetDemand", "objective", "built"}

\* C21: for every (area a, carrier e, time t) a Balance row exists exactly
\* when (a, e) is a buy pair, or a sell pair, or a technology located in a
\* has e in its input or output mix.
C21_BalanceRowIffPresence ==
    (entry = "build_model" /\ pc \in AfterBalance) =>
        \A a \in Areas, e \in Carriers, tt \in T :
            <<a, e, tt>> \in rows["Balance"] <=>
                \/ <<a, e>> \in buy_pairs
                \/ <<a, e>> \in sale_pairs
                \/ \E g \in G : /\ <<a, g>> \in location
                                /\ (sigma_in[e] > 0 \/ sigma_out[e] > 0)

C21_Witness ==
    /\ entry = "build_model"
    /\ pc = "built"
    /\ buy_pairs = {}
    /\ <<"a1", "e2">> \notin sale_pairs
    /\ \A tt \in T : <<"a1", "e2", tt>> \in rows["Balance"]
    /\ \A tt \in T : <<"a2", "e1", tt>> \notin rows["Balance"]

\* C25: a technology with capacity <= 0 has no Fuelmix, Production or
\* Availability row; with capacity > 0 it has a Fuelmix row for every
\* carrier of its input mix and every t, and a Production row for every
\* carrier of its output mix and every t exactly when it is not a storage.
C25_ZeroCapacityHasNoRows ==
    (entry = "build_model" /\ pc \in AfterAvailability) =>
        \A g \in G :
            /\ sum_in_raw * orig_cap <= 0 =>
                  /\ rows["Fuelmix"] = {}
                  /\ rows["Production"] = {}
                  /\ rows["Availability"] = {}
            /\ sum_in_raw * orig_cap > 0 =>
                  /\ \A e \in Carriers, tt \in T :
                        <<g, e, tt>> \in rows["Fuelmix"] <=> sigma_in[e] > 0
                  /\ \A e \in Carriers, tt \in T :
                        <<g, e, tt>> \in rows["Production"] <=>
                            (sigma_out[e] > 0 /\ g \notin G_s)

C25_Witness ==
    /\ entry = "build_model"
    /\ pc = "built"
    /\ G_s = {"g1"}
    /\ sum_in_raw * orig_cap > 0
    /\ sigma_out["e1"] > 0
    /\ rows["Production"] = {}
    /\ rows["Fuelmix"] # {}

\* C26: a demand-floor row is generated for every time step of every
\* (area, carrier) pair whose demand is positive at some time step, buy or
\* sell pair or not, and for no pair whose demand is zero throughout.
C26_DemandFloorForEveryPositivePair ==
    (entry = "build_model" /\ pc \in AfterDemandTime) =>
        \A key \in DemandSet :
            key \in rows["DemandTime"] <=>
                \E t2 \in T : demand[<<key[1], key[2], t2>>] > 0

\* C28: every slack variable of a generated demand-floor row and of a
\* generated demand-target row is summed in Profit with coefficient -penalty.
C28_EverySlackIsPenalized ==
    (entry = "build_model" /\ pc = "built") =>
        /\ \A idx \in rows["DemandTime"] :
              \A v \in demand_time_slacks(idx[1], idx[2]) : idx \in profit[v]
        /\ \A idx \in rows["TargetDemand"] : idx \in profit["SlackTarget"]

\* C23: build_full_year_week_map on 8760 distinct hour labels writes every
\* hour once, in list order and with week labels that never go back; at
\* the return every hour is mapped, each of the 52 weeks holds
\* floor(8760/52) or floor(8760/52)+1 hours, the larger size exactly in
\* the first 8760 mod 52 weeks, and the sizes sum to 8760.  A list of any
\* other length ends in the assertion with nothing mapped.
C23_WeekMapPartition ==
    /\ [](pc = "w_returned" =>
             /\ wk_idx = YearHours
             /\ \A b \in 1..n_weeks :
                   wk_sizes[b] \in {(YearHours \div n_weeks), (YearHours \div n_weeks) + 1}
             /\ \A b \in 1..n_weeks :
                   wk_sizes[b] = (YearHours \div n_weeks) + 1 <=> b <= (YearHours % n_weeks)
             /\ SumOver(wk_sizes, 1..n_weeks) = YearHours)
    /\ []((entry = "build_full_year_week_map" /\ n_hours # YearHours /\ pc # "w_assert") =>
             (pc = "w_AssertionError" /\ wk_idx = 0 /\ wk_last = <<0, 0>>))
    /\ [][wk_last' # wk_last =>
             /\ wk_last'[1] = wk_last[1] + 1
             /\ wk_last'[1] = wk_idx'
             /\ wk_last'[2] \in 1..n_weeks
             /\ wk_last'[2] >= wk_last[2]
             /\ wk_sizes' = [wk_sizes EXCEPT ![wk_last'[2]] = @ + 1]]_vars

C23_Witness ==
    /\ pc = "w_returned"
    /\ n_hours = YearHours
    /\ wk_sizes[1] = (YearHours \div n_weeks) + 1
    /\ wk_sizes[(YearHours % n_weeks) + 1] = (YearHours \div n_weeks)
    /\ wk_last = <<YearHours, n_weeks>>

\* the exact sum of the fractions fr, as FracSumNum / FracSumDen
FracExp(fr) == CHOOSE x \in {fr[e][2] : e \in DOMAIN fr} : \A e \in DOMAIN fr : fr[e][2] <= x
FracSumNum(fr) == SumOver([e \in DOMAIN fr |-> fr[e][1] * 2 ^ (FracExp(fr) - fr[e][2])], DOMAIN fr)
FracSumDen(fr) == 2 ^ FracExp(fr)

====
